---- MODULE Spec2Model ----
(***************************************************************************)
(* Model of the quiz-app frontend: the route table and the navigation      *)
(* guard of the router (src/unnamed/part_001) and the registration form    *)
(* (src/src/components/user/CreateUser.vue).                               *)
(*                                                                         *)
(* A string that the code inspects is a sequence of tokens: a URL is the   *)
(* sequence of its "/" separators, segments, "?" and query tokens          *)
(* ("/user-profile?tab=1" is <<"/", "user-profile", "?", "tab=", "1">>),   *)
(* a form field is the sequence of its characters.                         *)
(*                                                                         *)
(* Spec     : navigations pushed from anywhere, the guard, the session     *)
(*            flag changed by the external store.                          *)
(* FormSpec : the mounted registration form, register() and the            *)
(*            navigation it pushes.                                        *)
(* Scope: one navigation is in flight at a time; what vue-router does      *)
(* with overlapping navigations is not part of the repository's sources.   *)
(***************************************************************************)
EXTENDS Integers, Sequences, FiniteSets, Bags, TLC

VARIABLES
  currentRoute,     \* router.currentRoute: the rendered route
  isAuthenticated,  \* store.isAuthenticated of the user store
  nav,              \* the navigation in flight, <<>> or <<attempt>>
  fields,           \* the six refs bound to the form inputs
  errorMessage,     \* errorMessage ref of the form
  calls,            \* bag of the register() invocations that are awaiting
  submitted,        \* <<>> or <<request>>: last request given to store.registerUser
  last              \* what the last step was

vars == <<currentRoute, isAuthenticated, nav, fields, errorMessage, calls, submitted, last>>

routerVars == <<currentRoute, isAuthenticated, nav>>
formVars == <<fields, errorMessage, calls, submitted>>

\* Number of register() invocations that may be awaiting at the same time.
MaxCalls == 2

----------------------------------------------------------------------------
(* Route table *)

Route(path, name, authRequired) ==
  [path |-> path, name |-> name, meta |-> [authRequired |-> authRequired]]

\* The param segment of '/quiz-runner/:quizId' and the catch-all pattern.
ParamSegments == {":quizId"}
CatchAll == <<":pathName(.*)">>

routes ==
  << Route(<<>>, "home", FALSE),
     Route(<<"login">>, "login", FALSE),
     Route(<<"register-user">>, "register", FALSE),
     Route(<<"user-profile">>, "user-profile", TRUE),
     Route(<<"user-progress">>, "user-progress", TRUE),
     Route(<<"user-quizzes">>, "user-quizzes", TRUE),
     Route(<<"quiz-browser">>, "quiz-browser", FALSE),
     Route(<<"quiz-runner", ":quizId">>, "quiz-runner", FALSE),
     Route(<<"contact">>, "contact", FALSE),
     Route(<<"quiz-creator">>, "quiz-creator", FALSE),
     Route(CatchAll, "not-found", FALSE) >>

----------------------------------------------------------------------------
(* Resolution of a requested URL *)

IndexOf(s, t) ==
  IF \E i \in 1..Len(s) : s[i] = t
    THEN CHOOSE i \in 1..Len(s) : s[i] = t /\ \A j \in 1..(i - 1) : s[j] # t
    ELSE 0

\* The part of the URL before the first "?".
PathPart(fullPath) ==
  IF IndexOf(fullPath, "?") = 0 THEN fullPath
  ELSE SubSeq(fullPath, 1, IndexOf(fullPath, "?") - 1)

\* The part of the URL after the first "?".
SearchPart(fullPath) ==
  IF IndexOf(fullPath, "?") = 0 THEN <<>>
  ELSE SubSeq(fullPath, IndexOf(fullPath, "?") + 1, Len(fullPath))

IsSeparator(t) == t = "/"
IsSegment(t) == ~IsSeparator(t)

\* The segments of a path; a trailing "/" adds none.
Segments(path) == SelectSeq(path, IsSegment)

QueryKeys == [k \in {"redirect=", "tab="} |-> IF k = "redirect=" THEN "redirect" ELSE "tab"]

\* The query object of a URL: one key with the rest of the search as its value.
ParseQuery(search) ==
  IF search = <<>> \/ search[1] \notin DOMAIN QueryKeys THEN [k \in {} |-> <<>>]
  ELSE [k \in {QueryKeys[search[1]]} |-> Tail(search)]

\* Whether a path pattern of the table matches the segments of a path.
Matches(pattern, segs) ==
  \/ pattern = CatchAll
  \/ /\ Len(pattern) = Len(segs)
     /\ \A i \in 1..Len(pattern) : pattern[i] \in ParamSegments \/ pattern[i] = segs[i]

MatchingRecords(fullPath) ==
  {i \in 1..Len(routes) : Matches(routes[i].path, Segments(PathPart(fullPath)))}

Min(S) == CHOOSE i \in S : \A j \in S : i <= j

Max(S) == CHOOSE i \in S : \A j \in S : i >= j

\* Variant: the last record of the table that matches.
MatchedRecord_Last(fullPath) == routes[Max(MatchingRecords(fullPath))]

\* The record used for a URL: the first of the table that matches.
MatchedRecord(fullPath) == routes[Min(MatchingRecords(fullPath))]

\* router.resolve of a URL string: the normalized target location.
Resolve(fullPath) ==
  [name |-> MatchedRecord(fullPath).name,
   path |-> PathPart(fullPath),
   fullPath |-> fullPath,
   query |-> ParseQuery(SearchPart(fullPath)),
   meta |-> MatchedRecord(fullPath).meta]

RecordNamed(name) == routes[CHOOSE i \in 1..Len(routes) : routes[i].name = name]

\* The URL of a table record without params, from its pattern.
PathOf(pattern) ==
  IF pattern = <<>> THEN <<"/">>
  ELSE <<"/", pattern[1]>>

\* router.resolve of {name, query: {redirect}}: the record of that name, the
\* query object as given and the URL written from both.
ResolveNamed(location) ==
  [name |-> location.name,
   path |-> PathOf(RecordNamed(location.name).path),
   fullPath |-> PathOf(RecordNamed(location.name).path) \o <<"?", "redirect=">> \o location.query.redirect,
   query |-> location.query,
   meta |-> RecordNamed(location.name).meta]

\* START_LOCATION, the route before the first navigation.
StartLocation ==
  [name |-> "undefined", path |-> <<"/">>, fullPath |-> <<"/">>,
   query |-> [k \in {} |-> <<>>], meta |-> [authRequired |-> FALSE]]

----------------------------------------------------------------------------
(* Navigation guard *)

Proceed == [proceed |-> TRUE]

\* Variants of the guard: the redirect keeps only the path, the session is not
\* asked, every target passes, the redirect goes to the home route.
beforeEach_PathOnly(to, authenticated) ==
  IF to.meta.authRequired /\ ~authenticated
    THEN [name |-> "login", query |-> [redirect |-> to.path]]
    ELSE [proceed |-> TRUE]

beforeEach_NoSessionCheck(to, authenticated) ==
  IF to.meta.authRequired
    THEN [name |-> "login", query |-> [redirect |-> to.fullPath]]
    ELSE [proceed |-> TRUE]

beforeEach_AlwaysProceed(to, authenticated) == [proceed |-> TRUE]

beforeEach_RedirectHome(to, authenticated) ==
  IF to.meta.authRequired /\ ~authenticated
    THEN [name |-> "home", query |-> [redirect |-> to.fullPath]]
    ELSE [proceed |-> TRUE]

\* The callback of router.beforeEach; authenticated is what isAuthenticated()
\* returns, which the callback asks for only on an authRequired target.
beforeEach(to, authenticated) ==
  IF to.meta.authRequired
    THEN IF authenticated
           THEN Proceed
           ELSE [name |-> "login", query |-> [redirect |-> to.fullPath]]
    ELSE Proceed

----------------------------------------------------------------------------
(* URLs requested in the model *)

Requests ==
  { <<"/">>,
    <<"/", "login">>,
    <<"/", "register-user">>,
    <<"/", "user-profile">>,
    <<"/", "user-progress">>,
    <<"/", "user-quizzes">>,
    <<"/", "quiz-browser">>,
    <<"/", "quiz-runner", "/", "7">>,
    <<"/", "contact">>,
    <<"/", "quiz-creator">>,
    <<"/", "xyz123">>,
    <<"/", "quiz-runner">>,
    <<"/", "user-profile", "/">>,
    <<"/", "user-profile", "/", "settings">>,
    <<"/", "user-quizzes", "?", "tab=", "1">>,
    <<"/", "login", "?", "redirect=", "/", "user-progress">>,
    <<"/", "user-profile", "?", "redirect=", "/", "contact">> }

----------------------------------------------------------------------------
(* Navigation: push, guard, redirect, finalize *)

NoNavigation == <<>>

Step(op, orig, redirects) == [op |-> op, orig |-> orig, redirects |-> redirects]

\* The attempt that router.push(fullPath) starts.
Attempt(fullPath) ==
  [orig |-> fullPath, to |-> Resolve(fullPath), phase |-> "pending",
   authenticated |-> <<>>, decision |-> [pending |-> TRUE], redirects |-> 0]

\* router.push(fullPath) from a link, the address bar or the initial load.
Push(fullPath) ==
  /\ nav = NoNavigation
  /\ nav' = <<Attempt(fullPath)>>
  /\ last' = Step("push", fullPath, 0)
  /\ UNCHANGED <<currentRoute, isAuthenticated, formVars>>

\* The router calls the guard on the pending target; authenticated keeps the
\* value the session flag had at that call.
Guard ==
  /\ nav # NoNavigation
  /\ nav[1].phase = "pending"
  /\ nav' = <<[nav[1] EXCEPT
                 !.decision = beforeEach(nav[1].to, isAuthenticated),
                 !.authenticated = <<isAuthenticated>>,
                 !.phase = IF beforeEach(nav[1].to, isAuthenticated) = Proceed
                             THEN "proceed" ELSE "redirect"]>>
  /\ last' = Step("guard", nav[1].orig, nav[1].redirects)
  /\ UNCHANGED <<currentRoute, isAuthenticated, formVars>>

\* The router re-targets the attempt to the location the guard returned; the
\* new target goes through the guard again.
FollowRedirect ==
  /\ nav # NoNavigation
  /\ nav[1].phase = "redirect"
  /\ nav' = <<[nav[1] EXCEPT
                 !.to = ResolveNamed(nav[1].decision),
                 !.phase = "pending",
                 !.redirects = nav[1].redirects + 1]>>
  /\ last' = Step("redirect", nav[1].orig, nav[1].redirects + 1)
  /\ UNCHANGED <<currentRoute, isAuthenticated, formVars>>

\* The guard let the target pass: it becomes the rendered route, and a
\* register() awaiting this push resumes and returns.
Finalize ==
  /\ nav # NoNavigation
  /\ nav[1].phase = "proceed"
  /\ currentRoute' = nav[1].to
  /\ nav' = NoNavigation
  /\ calls' = [c \in BagToSet(calls) \ {[phase |-> "pushing", err |-> ""]} |-> calls[c]]
  /\ last' = Step("finalize", nav[1].orig, nav[1].redirects)
  /\ UNCHANGED <<isAuthenticated, fields, errorMessage, submitted>>

\* The user store sets its flag (login, logout, expiry): not code of the router.
SetAuthenticated(b) ==
  /\ isAuthenticated # b
  /\ isAuthenticated' = b
  /\ last' = Step("session", <<>>, 0)
  /\ UNCHANGED <<currentRoute, nav, formVars>>

----------------------------------------------------------------------------
(* Registration form *)

FieldNames == {"username", "password", "confirmPassword", "email", "name", "surname"}

WhiteSpace == {" "}

\* Values typed or pasted into an input.
FieldInputs == {<<>>, <<" ">>, <<" ", "a", " ">>}

RECURSIVE TrimStart(_)
TrimStart(str) ==
  IF str # <<>> /\ Head(str) \in WhiteSpace THEN TrimStart(Tail(str)) ELSE str

RECURSIVE TrimEnd(_)
TrimEnd(str) ==
  IF str # <<>> /\ str[Len(str)] \in WhiteSpace
    THEN TrimEnd(SubSeq(str, 1, Len(str) - 1))
    ELSE str

\* String.prototype.trim
trim(str) == TrimEnd(TrimStart(str))

\* !str || /^\s*$/.test(str)
isBlank(str) == str = <<>> \/ \A i \in 1..Len(str) : str[i] \in WhiteSpace

\* Variant: the confirmation is not looked at.
fieldsFilled_NoConfirm ==
  /\ ~isBlank(fields.username)
  /\ ~isBlank(fields.email)
  /\ ~isBlank(fields.name)
  /\ ~isBlank(fields.surname)

fieldsFilled ==
  /\ ~isBlank(fields.username)
  /\ ~isBlank(fields.email)
  /\ ~isBlank(fields.name)
  /\ ~isBlank(fields.surname)
  /\ ~isBlank(fields.confirmPassword)

\* The form is on screen while the register route is the rendered one.
Mounted == currentRoute.name = "register"

PasswordMismatchText == "Password conformation not correct."
RegistrationFailedText == "Registration failed"

\* What store.registerUser may throw.
Errors == {"Network Error"}

\* ErrorHandlingService.handleRequestError(err, fallback): the texts it may give.
handleRequestError(err, fallback) == {err, fallback}

\* A register() invocation awaiting store.registerUser, router.push or the
\* translation of the error err.
Registering == [phase |-> "registering", err |-> ""]
Pushing == [phase |-> "pushing", err |-> ""]
Handling(err) == [phase |-> "handling", err |-> err]

One(c) == SetToBag({c})

\* The request that register() builds from the fields.
CreateUserRequest ==
  [username |-> trim(fields.username),
   password |-> trim(fields.password),
   email |-> trim(fields.email),
   name |-> trim(fields.name),
   surname |-> trim(fields.surname)]

\* if (route.query.redirect)
HasRedirect(route) == "redirect" \in DOMAIN route.query /\ route.query.redirect # <<>>

\* Variant: the redirect query is ignored.
PushTarget_AlwaysHome(route) == <<"/">>

\* The argument of router.push after a registration.
PushTarget(route) == IF HasRedirect(route) THEN route.query.redirect ELSE <<"/">>

\* Variant: the watch leaves out surname.
Input_SurnameUnwatched(f, v) ==
  /\ currentRoute.name = "register"
  /\ fields[f] # v
  /\ fields' = [fields EXCEPT ![f] = v]
  /\ errorMessage' = IF f = "surname" THEN errorMessage ELSE ""
  /\ last' = Step("input", <<>>, 0)
  /\ UNCHANGED <<routerVars, calls, submitted>>

\* v-model writes an input's value into its ref; the watch clears the message.
Input(f, v) ==
  /\ Mounted
  /\ fields[f] # v
  /\ fields' = [fields EXCEPT ![f] = v]
  /\ errorMessage' = ""
  /\ last' = Step("input", <<>>, 0)
  /\ UNCHANGED <<routerVars, calls, submitted>>

\* Variant: the return after the mismatch message is missing.
Register_NoReturn ==
  /\ currentRoute.name = "register"
  /\ fieldsFilled
  /\ BagCardinality(calls) < MaxCalls
  /\ errorMessage' = IF fields.password # fields.confirmPassword
                       THEN "Password conformation not correct." ELSE errorMessage
  /\ submitted' = <<[username |-> trim(fields.username),
                      password |-> trim(fields.password),
                      email |-> trim(fields.email),
                      name |-> trim(fields.name),
                      surname |-> trim(fields.surname)]>>
  /\ calls' = calls (+) SetToBag({[phase |-> "registering", err |-> ""]})
  /\ last' = Step("register", <<>>, 0)
  /\ UNCHANGED <<routerVars, fields>>

\* Submit of the form, possible while the button is enabled: register() up to
\* its first await.
Register ==
  /\ Mounted
  /\ fieldsFilled
  /\ BagCardinality(calls) < MaxCalls
  /\ IF fields.password # fields.confirmPassword
       THEN /\ errorMessage' = PasswordMismatchText
            /\ UNCHANGED <<calls, submitted>>
       ELSE /\ submitted' = <<CreateUserRequest>>
            /\ calls' = calls (+) One(Registering)
            /\ UNCHANGED errorMessage
  /\ last' = Step("register", <<>>, 0)
  /\ UNCHANGED <<routerVars, fields>>

\* store.registerUser resolved: register() reads the current route's query
\* and pushes.
Registered ==
  /\ BagIn(Registering, calls)
  /\ nav = NoNavigation
  /\ nav' = <<Attempt(PushTarget(currentRoute))>>
  /\ calls' = (calls (-) One(Registering)) (+) One(Pushing)
  /\ last' = Step("registered", <<>>, 0)
  /\ UNCHANGED <<currentRoute, isAuthenticated, fields, errorMessage, submitted>>

\* store.registerUser threw: the catch block awaits the translation.
RegistrationFailed(err) ==
  /\ BagIn(Registering, calls)
  /\ calls' = (calls (-) One(Registering)) (+) One(Handling(err))
  /\ last' = Step("failed", <<>>, 0)
  /\ UNCHANGED <<routerVars, fields, errorMessage, submitted>>

\* The translation arrived: it becomes the displayed message.
ShowError(err, text) ==
  /\ BagIn(Handling(err), calls)
  /\ text \in handleRequestError(err, RegistrationFailedText)
  /\ errorMessage' = text
  /\ calls' = calls (-) One(Handling(err))
  /\ last' = Step("error", <<>>, 0)
  /\ UNCHANGED <<routerVars, fields, submitted>>

----------------------------------------------------------------------------
(* Specifications *)

NoFields == [f \in FieldNames |-> <<>>]

Init ==
  /\ currentRoute = StartLocation
  /\ isAuthenticated = FALSE
  /\ nav = NoNavigation
  /\ fields = NoFields
  /\ errorMessage = ""
  /\ calls = EmptyBag
  /\ submitted = <<>>
  /\ last = Step("init", <<>>, 0)

Next ==
  \/ \E fullPath \in Requests : Push(fullPath)
  \/ Guard
  \/ FollowRedirect
  \/ Finalize
  \/ \E b \in BOOLEAN : SetAuthenticated(b)

Spec == Init /\ [][Next]_vars

\* The promise chain of an attempt is always continued.
LiveSpec == Spec /\ WF_vars(Guard) /\ WF_vars(FollowRedirect) /\ WF_vars(Finalize)

\* The URLs under which the registration page is opened.
RegisterEntries ==
  { <<"/", "register-user">>,
    <<"/", "register-user", "?", "redirect=">>,
    <<"/", "register-user", "?", "redirect=", "/", "user-profile">> }

FormInit ==
  /\ currentRoute \in {Resolve(e) : e \in RegisterEntries}
  /\ isAuthenticated \in BOOLEAN
  /\ nav = NoNavigation
  /\ fields = NoFields
  /\ errorMessage = ""
  /\ calls = EmptyBag
  /\ submitted = <<>>
  /\ last = Step("init", <<>>, 0)

FormNext ==
  \/ \E f \in FieldNames, v \in FieldInputs : Input(f, v)
  \/ Register
  \/ Registered
  \/ \E err \in Errors : RegistrationFailed(err)
  \/ \E err \in Errors, text \in Errors \cup {RegistrationFailedText} : ShowError(err, text)
  \/ Guard
  \/ FollowRedirect
  \/ Finalize

FormSpec == FormInit /\ [][FormNext]_vars

----------------------------------------------------------------------------
(* Properties of the navigation guard (Spec, LiveSpec) *)

InFlight == nav # NoNavigation
Decided == InFlight /\ nav[1].phase \in {"proceed", "redirect"}

LoginRedirect(fullPath) == [name |-> "login", query |-> [redirect |-> fullPath]]

AuthPages == {"user-profile", "user-progress", "user-quizzes"}

\* C1: when the guard has been called on an authRequired target while the
\* session flag was false, its result is the redirect to 'login' whose
\* query.redirect is the URL that was requested, sub-path and query included.
C1_RedirectKeepsFullPath ==
  (Decided /\ nav[1].to.meta.authRequired /\ nav[1].authenticated = <<FALSE>>)
    => /\ nav[1].phase = "redirect"
       /\ nav[1].decision = LoginRedirect(nav[1].orig)

C1_Witness ==
  /\ InFlight
  /\ nav[1].phase = "redirect"
  /\ nav[1].orig = <<"/", "user-quizzes", "?", "tab=", "1">>
  /\ nav[1].decision.query.redirect = <<"/", "user-quizzes", "?", "tab=", "1">>

\* C2: the guard's result is Proceed exactly when the target is not
\* authRequired or the session flag is true.
C2_ProceedUnlessAuthMissing ==
  Decided =>
    ((nav[1].phase = "proceed" /\ nav[1].decision = [proceed |-> TRUE])
       <=> (~nav[1].to.meta.authRequired \/ nav[1].authenticated = <<TRUE>>))

C2_Witness ==
  /\ Decided
  /\ nav[1].to.name = "user-quizzes"
  /\ nav[1].authenticated = <<TRUE>>
  /\ nav[1].phase = "proceed"

\* C3 as stated: an authRequired page is never the rendered route while the
\* session flag is false.
C3_NeverRenderedWithoutSession ==
  currentRoute.name \in AuthPages => isAuthenticated

\* C3 as amended: an authRequired page becomes the rendered route only as
\* the target of an attempt whose guard call found the session flag true.
C3_RenderedOnlyAfterAuthenticatedCheck ==
  [][(currentRoute' # currentRoute /\ currentRoute'.name \in AuthPages)
       => /\ InFlight
          /\ nav[1].to = currentRoute'
          /\ nav[1].authenticated = <<TRUE>>]_vars

C3_Witness ==
  /\ currentRoute.name \in AuthPages
  /\ last.op = "finalize"
  /\ ~isAuthenticated

Landed(fullPath) ==
  /\ ~InFlight
  /\ last = Step("finalize", fullPath, 1)
  /\ currentRoute.name = "login"
  /\ currentRoute.query = [redirect |-> fullPath]

OtherPatterns(fullPath) ==
  {i \in 1..Len(routes) :
     /\ routes[i].name # "not-found"
     /\ Len(routes[i].path) = Len(Segments(PathPart(fullPath)))
     /\ \A k \in 1..Len(routes[i].path) :
          routes[i].path[k] = ":quizId" \/ routes[i].path[k] = Segments(PathPart(fullPath))[k]}

\* C5: at most one pattern besides the catch-all matches a requested URL,
\* the target is 'not-found' exactly when none does, and the guard lets
\* 'not-found' pass whatever the session flag is.
C5_CatchAllOnlyWhenUnmatched ==
  (InFlight /\ nav[1].redirects = 0) =>
    /\ Cardinality(OtherPatterns(nav[1].orig)) <= 1
    /\ nav[1].to.name = "not-found" <=> OtherPatterns(nav[1].orig) = {}
    /\ \A i \in OtherPatterns(nav[1].orig) :
         nav[1].to.name = routes[i].name /\ nav[1].to.meta = routes[i].meta
    /\ (Decided /\ nav[1].to.name = "not-found") => nav[1].phase = "proceed"

C5_Witness ==
  /\ Decided
  /\ nav[1].orig = <<"/", "xyz123">>
  /\ nav[1].to.name = "not-found"
  /\ nav[1].authenticated = <<FALSE>>
  /\ nav[1].phase = "proceed"

----------------------------------------------------------------------------
(* Properties of the registration form (FormSpec) *)

RequestFields == {"username", "password", "email", "name", "surname"}

\* C7: register() with password different from confirmPassword sets a
\* non-empty message and nothing else: no request to the store, no push.
C7_MismatchOnlySetsMessage ==
  [][(last'.op = "register" /\ fields.password # fields.confirmPassword)
       => /\ errorMessage' # ""
          /\ UNCHANGED <<calls, submitted, nav, currentRoute, isAuthenticated, fields>>]_vars

C7_Witness ==
  /\ last.op = "register"
  /\ fields.password # fields.confirmPassword
  /\ errorMessage = "Password conformation not correct."
  /\ submitted = <<>>

\* C8: when store.registerUser throws, the invocation ends without a push
\* and with the translation of the error as the message; a displayed message
\* goes away only when a field changes, and every field change clears it.
C8_FailureShowsMessageUntilEdit ==
  [][/\ \A err \in Errors :
          /\ CopiesIn([phase |-> "handling", err |-> err], calls')
               > CopiesIn([phase |-> "handling", err |-> err], calls)
             => UNCHANGED <<nav, currentRoute>>
          /\ CopiesIn([phase |-> "handling", err |-> err], calls')
               < CopiesIn([phase |-> "handling", err |-> err], calls)
             => /\ errorMessage' \in {err, "Registration failed"}
                /\ BagCardinality(calls') = BagCardinality(calls) - 1
                /\ UNCHANGED <<nav, currentRoute>>
     /\ (errorMessage # "" /\ fields' = fields) => errorMessage' # ""
     /\ fields' # fields => errorMessage' = ""]_vars

C8_Witness ==
  /\ last.op = "error"
  /\ errorMessage = "Network Error"
  /\ currentRoute.name = "register"
  /\ ~InFlight

PushOf(call) == CopiesIn([phase |-> "pushing", err |-> ""], call)
AwaitingStore(call) == CopiesIn([phase |-> "registering", err |-> ""], call)

\* C9 as stated: after a successful registration the push goes to the
\* redirect query parameter whenever the current route has one, else to "/".
C9_PushesRedirectIfPresent ==
  [][PushOf(calls') > PushOf(calls)
       => nav' = <<Attempt(IF "redirect" \in DOMAIN currentRoute.query
                             THEN currentRoute.query.redirect ELSE <<"/">>)>>]_vars

\* C9 as amended: a push is issued exactly when a registration completes,
\* one per registration, to the redirect query parameter if the current
\* route has one that is not empty and to "/" otherwise, with the message
\* untouched; the invocation ends with that navigation.
C9_PushesNonEmptyRedirect ==
  [][/\ PushOf(calls') > PushOf(calls)
          => /\ AwaitingStore(calls') = AwaitingStore(calls) - 1
             /\ PushOf(calls') = PushOf(calls) + 1
             /\ ~InFlight
             /\ nav' = <<Attempt(IF /\ "redirect" \in DOMAIN currentRoute.query
                                    /\ currentRoute.query.redirect # <<>>
                                   THEN currentRoute.query.redirect ELSE <<"/">>)>>
             /\ errorMessage' = errorMessage
     /\ (~InFlight /\ nav' # NoNavigation) => PushOf(calls') > PushOf(calls)
     /\ PushOf(calls') < PushOf(calls) => (nav' = NoNavigation /\ PushOf(calls') = 0)]_vars

C9_Witness ==
  /\ last.op = "finalize"
  /\ last.orig = <<"/", "user-profile">>
  /\ currentRoute.name = "user-profile"
  /\ submitted # <<>>

\* C10: every field of a request given to store.registerUser holds a
\* character that is not white space, the password included.
C10_SubmittedFieldsNotBlank ==
  submitted # <<>> =>
    \A k \in RequestFields :
      /\ submitted[1][k] # <<>>
      /\ submitted[1][k][1] # " "
      /\ submitted[1][k][Len(submitted[1][k])] # " "

C10_Witness ==
  /\ submitted # <<>>
  /\ last.op = "register"
  /\ fields.password = <<" ", "a", " ">>
  /\ submitted[1].password = <<"a">>

====
